---- MODULE Spec2Model ----
(***************************************************************************)
(* scrape_bangumi (spider.py): one HTTP GET, one parse, four extractions   *)
(* (name, summary, cover_url, tags), one returned mapping.                 *)
(*                                                                         *)
(* A text is a sequence of characters.  The label characters of            *)
(* '中文名:' are written "zhong", "wen", "ming", ":".  An optional value    *)
(* (Python None or a value) is the empty tuple or a one-element tuple.     *)
(***************************************************************************)
EXTENDS Integers, Sequences, FiniteSets, TLC

VARIABLES pc, gets, response, soup, name, summary, cover_url, tags, exc, result

vars == <<pc, gets, response, soup, name, summary, cover_url, tags, exc, result>>

\* ------------------------------------------------------------ bounds
\* most <li> items inside ul#infobox
MaxLi == 2
\* most <a> elements inside the tag section's inner wrapper
MaxAnchors == 3

\* ------------------------------------------------------------ values
None == <<>>
Some(x) == <<x>>

SeqsUpTo(S, n) == UNION {[1..k -> S] : k \in 0..n}

\* ------------------------------------------------------------ str methods
RECURSIVE LStrip(_)
LStrip(s) == IF s # <<>> /\ Head(s) = " " THEN LStrip(Tail(s)) ELSE s

RECURSIVE RStrip(_)
RStrip(s) ==
  IF s # <<>> /\ s[Len(s)] = " " THEN RStrip(SubSeq(s, 1, Len(s) - 1)) ELSE s

\* str.strip()
Strip(s) == RStrip(LStrip(s))

\* str.startswith(p)
StartsWith(s, p) == Len(s) >= Len(p) /\ SubSeq(s, 1, Len(p)) = p

\* s.split(c, 1)[1]: what follows the first c (s holds one)
SplitRest(s, c) ==
  LET i == CHOOSE k \in 1..Len(s) : s[k] = c /\ \A j \in 1..(k - 1) : s[j] # c
  IN  SubSeq(s, i + 1, Len(s))

\* `not x` for an Optional[str]: None and '' are falsy
Falsy(x) == x = None \/ x = Some(<<>>)

\* ------------------------------------------------------------ literals
NameLabel == <<"zhong", "wen", "ming", ":">>
HttpsPrefix == <<"h", "t", "t", "p", "s", ":">>
MoreId == "show_user_tags"
\* '网络请求失败: ' and '处理错误: '
NetworkPrefix == "network request failed: "
ProcessingPrefix == "processing error: "

\* ------------------------------------------------------------ pages
\* texts an <li> of the infobox may hold
LiTexts ==
  { NameLabel \o <<" ", "a", " ">>,
    <<" ">> \o NameLabel \o <<"b">>,
    NameLabel,
    NameLabel \o <<" ">>,
    NameLabel \o <<"a", ":", "b">>,
    <<"zhong", "wen", "ming", " ", "a">>,
    <<"a", ":", "b">>,
    <<>> }

\* ul#infobox: absent, or its <li> texts in document order
Infoboxes == {None} \cup {Some(l) : l \in SeqsUpTo(LiTexts, MaxLi)}

\* h1.nameSingle: absent, or its lang='zh' children and its own get_text()
Headings ==
  {None} \cup
  { Some([zh_small |-> s, zh_a |-> a, text |-> t]) :
      s \in {None, Some(<<"s", " ">>)},
      a \in {None, Some(<<" ", "k">>)},
      t \in {<<>>, <<" ", "h", " ">>} }

\* div#subject_summary: absent, or its text
Summaries == {None, Some(<<>>), Some(<<" ", "s", " ">>)}

\* img.cover: absent, without a src attribute, or with one
Covers ==
  {None, Some([src |-> None])} \cup
  { Some([src |-> Some(u)]) :
      u \in { <<>>, <<"/">>, <<"/", "/">>, <<"/", "/", "x">>, <<"/", "x">>,
              <<"x", "/", "/">>, <<"/", "/", "/", "x">>,
              HttpsPrefix \o <<"/", "/", "x">> } }

\* an <a> inside the inner wrapper: whether its class is l, its id, its <span>
Anchors ==
  [ class_l : BOOLEAN,
    id      : {MoreId, ""},
    span    : {None, Some(<<>>), Some(<<"a">>), Some(<<" ", "b">>)} ]

\* div.subject_tag_section: absent, without div.inner, or with its anchors
TagSections ==
  {None, Some([inner |-> None])} \cup
  { Some([inner |-> Some(l)]) : l \in SeqsUpTo(Anchors, MaxAnchors) }

Page(i, h, s, c, t) ==
  [infobox |-> i, heading |-> h, summary |-> s, cover |-> c, tag_section |-> t]

\* pages that vary one landmark over all its shapes
PagesName == {Page(i, h, None, None, None) : i \in Infoboxes, h \in Headings}
PagesCover == {Page(None, None, s, c, None) : s \in Summaries, c \in Covers}
PagesTags == {Page(None, None, None, None, t) : t \in TagSections}

\* pages that vary every landmark over a few shapes
PagesMixed ==
  { Page(i, h, s, c, t) :
      i \in {None, Some(<<NameLabel \o <<"a">> >>), Some(<<NameLabel>>)},
      h \in {None, Some([zh_small |-> None, zh_a |-> None, text |-> <<"h">>])},
      s \in {None, Some(<<"s">>)},
      c \in {None, Some([src |-> None]), Some([src |-> Some(<<"/", "/", "x">>)]),
             Some([src |-> Some(<<"x">>)])},
      t \in {None, Some([inner |-> None]),
             Some([inner |-> Some(<< [class_l |-> TRUE, id |-> "", span |-> Some(<<"a">>)],
                                     [class_l |-> TRUE, id |-> MoreId, span |-> Some(<<"b">>)] >>)])} }

Pages == PagesName \cup PagesCover \cup PagesTags \cup PagesMixed

\* status codes a final response may carry
Statuses == {200, 204, 304, 404, 500}

\* ------------------------------------------------------------ initial state
Init ==
  /\ pc = "start"
  /\ gets = 0
  /\ response = None
  /\ soup = None
  /\ name = None
  /\ summary = None
  /\ cover_url = None
  /\ tags = <<>>
  /\ exc = None
  /\ result = None

\* ------------------------------------------------------------ fetch
\* the bodies a response may carry
Bodies(status_code) == IF status_code = 200 THEN Pages ELSE PagesMixed

RaisesForStatusClientOnly(status_code) == 400 <= status_code /\ status_code < 500

\* response.raise_for_status(): HTTPError for a 4xx or 5xx status
RaisesForStatus(status_code) == 400 <= status_code /\ status_code < 600

\* requests.get(url, headers=headers, timeout=10); response.raise_for_status()
Fetch ==
  /\ pc = "start"
  /\ gets' = gets + 1
  /\ \/ \E e \in {"ConnectionError", "Timeout"} :
          /\ exc' = Some(e)
          /\ response' = response
          /\ pc' = "except"
     \/ \E status_code \in Statuses :
          \E text \in Bodies(status_code) :
            /\ response' = Some([status_code |-> status_code, text |-> text])
            /\ IF RaisesForStatus(status_code)
                 THEN exc' = Some("HTTPError") /\ pc' = "except"
                 ELSE exc' = exc /\ pc' = "parse"
  /\ UNCHANGED <<soup, name, summary, cover_url, tags, result>>

\* soup = BeautifulSoup(response.text, 'html.parser')
Parse ==
  /\ pc = "parse"
  /\ soup' = Some(response[1].text)
  /\ pc' = "name"
  /\ UNCHANGED <<gets, response, name, summary, cover_url, tags, exc, result>>

\* ------------------------------------------------------------ 1. name
LabelValueLastPart(text) ==
  LET i == CHOOSE k \in 1..Len(text) :
             text[k] = ":" /\ \A j \in (k + 1)..Len(text) : text[j] # ":"
  IN  Strip(SubSeq(text, i + 1, Len(text)))

\* text.split(':', 1)[1].strip()
LabelValue(text) == Strip(SplitRest(text, ":"))

\* for li in info_box.find_all('li'): the first li whose text starts with the label
RECURSIVE FindName(_)
FindName(lis) ==
  IF lis = <<>> THEN None
  ELSE LET text == Strip(Head(lis))
       IN  IF StartsWith(text, NameLabel)
             THEN Some(LabelValue(text))
             ELSE FindName(Tail(lis))

NameFromInfobox(page) ==
  IF page.infobox # None THEN FindName(page.infobox[1]) ELSE None

NameFromTitleFullText(title_elem) == Some(Strip(title_elem.text))

\* title_elem.find('small', lang='zh') or title_elem.find('a', lang='zh')
NameFromTitle(title_elem) ==
  LET chinese_part ==
        IF title_elem.zh_small # None THEN title_elem.zh_small ELSE title_elem.zh_a
  IN  IF chinese_part # None
        THEN Some(Strip(chinese_part[1]))
        ELSE Some(Strip(title_elem.text))

ExtractName ==
  /\ pc = "name"
  /\ LET page == soup[1]
         found == NameFromInfobox(page)
     IN  name' = IF Falsy(found) /\ page.heading # None
                   THEN NameFromTitle(page.heading[1])
                   ELSE found
  /\ pc' = "summary"
  /\ UNCHANGED <<gets, response, soup, summary, cover_url, tags, exc, result>>

\* ------------------------------------------------------------ 2. summary
ExtractSummary ==
  /\ pc = "summary"
  /\ LET summary_elem == soup[1].summary
     IN  summary' = IF summary_elem # None THEN Some(Strip(summary_elem[1])) ELSE None
  /\ pc' = "cover"
  /\ UNCHANGED <<gets, response, soup, name, cover_url, tags, exc, result>>

\* ------------------------------------------------------------ 3. cover_url
CoverUrlAlwaysPrefixed(src) ==
  IF src # None /\ src[1] # <<>> THEN Some(HttpsPrefix \o src[1]) ELSE src

\* if cover_url and cover_url.startswith('//'): cover_url = 'https:' + cover_url
CoverUrl(src) ==
  IF src # None /\ src[1] # <<>> /\ StartsWith(src[1], <<"/", "/">>)
    THEN Some(HttpsPrefix \o src[1])
    ELSE src

\* cover_elem['src'] raises KeyError when the element has no src attribute
ExtractCover ==
  /\ pc = "cover"
  /\ LET cover_elem == soup[1].cover
     IN  IF cover_elem # None /\ cover_elem[1].src = None
           THEN /\ exc' = Some("KeyError")
                /\ pc' = "except"
                /\ UNCHANGED cover_url
           ELSE /\ cover_url' =
                     CoverUrl(IF cover_elem # None THEN cover_elem[1].src ELSE None)
                /\ pc' = "tags"
                /\ UNCHANGED exc
  /\ UNCHANGED <<gets, response, soup, name, summary, tags, result>>

\* ------------------------------------------------------------ 4. tags
\* inner_div.find_all('a', class_='l')
FindAllL(anchors) == SelectSeq(anchors, LAMBDA a : a.class_l)

IsMoreLinkNever(link) == FALSE

\* link.get('id') == 'show_user_tags'
IsMoreLink(link) == link.id = MoreId

TagTextOrEmpty(link) ==
  IF link.span # None THEN Some(Strip(link.span[1])) ELSE Some(<<>>)

\* span_tag = link.find('span'); if span_tag: tag_text = span_tag.text.strip()
TagText(link) == IF link.span # None THEN Some(Strip(link.span[1])) ELSE None

PrependTag(list, tag_text) == <<tag_text>> \o list

\* tags.append(tag_text)
AppendTag(list, tag_text) == Append(list, tag_text)

\* for link in tag_links
RECURSIVE CollectTags(_, _)
CollectTags(tag_links, list) ==
  IF tag_links = <<>> THEN list
  ELSE LET link == Head(tag_links)
       IN  IF IsMoreLink(link) THEN CollectTags(Tail(tag_links), list)
           ELSE IF TagText(link) # None
             THEN CollectTags(Tail(tag_links), AppendTag(list, TagText(link)[1]))
             ELSE CollectTags(Tail(tag_links), list)

ExtractTags ==
  /\ pc = "tags"
  /\ LET tag_container == soup[1].tag_section
     IN  tags' = IF tag_container # None /\ tag_container[1].inner # None
                   THEN CollectTags(FindAllL(tag_container[1].inner[1]), <<>>)
                   ELSE <<>>
  /\ pc' = "return"
  /\ UNCHANGED <<gets, response, soup, name, summary, cover_url, exc, result>>

\* ------------------------------------------------------------ results
DataResult == [name |-> name, summary |-> summary, cover_url |-> cover_url, tags |-> tags]

ErrorResultWithName(prefix, e) == [error |-> <<prefix, e>>, name |-> name]

\* {'error': f"<prefix>{str(e)}"}
ErrorResult(prefix, e) == [error |-> <<prefix, e>>]

Return ==
  /\ pc = "return"
  /\ result' = Some(DataResult)
  /\ pc' = "done"
  /\ UNCHANGED <<gets, response, soup, name, summary, cover_url, tags, exc>>

\* the classes requests.exceptions.RequestException covers
IsRequestException(e) == e \in {"ConnectionError", "Timeout", "HTTPError"}

HandleRequestExceptionRetry ==
  /\ pc = "except"
  /\ IsRequestException(exc[1])
  /\ IF gets < 2
       THEN /\ pc' = "start"
            /\ exc' = None
            /\ response' = None
            /\ UNCHANGED result
       ELSE /\ pc' = "done"
            /\ result' = Some(ErrorResult(NetworkPrefix, exc[1]))
            /\ UNCHANGED <<exc, response>>
  /\ UNCHANGED <<gets, soup, name, summary, cover_url, tags>>

\* except requests.exceptions.RequestException as e
HandleRequestException ==
  /\ pc = "except"
  /\ IsRequestException(exc[1])
  /\ result' = Some(ErrorResult(NetworkPrefix, exc[1]))
  /\ pc' = "done"
  /\ UNCHANGED <<gets, response, soup, name, summary, cover_url, tags, exc>>

\* except Exception as e
HandleException ==
  /\ pc = "except"
  /\ ~IsRequestException(exc[1])
  /\ result' = Some(ErrorResult(ProcessingPrefix, exc[1]))
  /\ pc' = "done"
  /\ UNCHANGED <<gets, response, soup, name, summary, cover_url, tags, exc>>

Next ==
  \/ Fetch
  \/ Parse
  \/ ExtractName
  \/ ExtractSummary
  \/ ExtractCover
  \/ ExtractTags
  \/ Return
  \/ HandleRequestException
  \/ HandleException

Spec == Init /\ [][Next]_vars

\* ============================================================ properties
IsErrorResult(r) == DOMAIN r = {"error"}
IsDataResult(r) == DOMAIN r = {"name", "summary", "cover_url", "tags"}

Returned == pc = "done"
ReturnedData == pc = "done" /\ IsDataResult(result[1])
ReturnedError == pc = "done" /\ IsErrorResult(result[1])

\* the fetched page, once parsed
Fetched == soup # None
ThePage == soup[1]

\* the name lines (35-58) have run on the fetched page
NameExtracted == Fetched /\ pc # "name"
\* the tag lines (70-91) have run on the fetched page
TagsExtracted == Fetched /\ (pc = "return" \/ ReturnedData)
TheTags == IF pc = "done" THEN result[1].tags ELSE tags

\* --- the infobox, read directly off the page
TheLis == IF ThePage.infobox # None THEN ThePage.infobox[1] ELSE <<>>
IsNameItem(i) == StartsWith(Strip(TheLis[i]), NameLabel)
HasNameItem == \E i \in DOMAIN TheLis : IsNameItem(i)
FirstNameItem ==
  Strip(TheLis[CHOOSE i \in DOMAIN TheLis :
                 IsNameItem(i) /\ \A j \in 1..(i - 1) : ~IsNameItem(j)])
\* the trimmed text after the label's ':' (the first ':' of the item)
Remainder == Strip(SubSeq(FirstNameItem, Len(NameLabel) + 1, Len(FirstNameItem)))

\* --- the heading, read directly off the page
HasHeading == ThePage.heading # None
TheHeading == ThePage.heading[1]
HeadingName ==
  IF TheHeading.zh_small # None THEN Some(Strip(TheHeading.zh_small[1]))
  ELSE IF TheHeading.zh_a # None THEN Some(Strip(TheHeading.zh_a[1]))
  ELSE Some(Strip(TheHeading.text))

\* --- the tag anchors, read directly off the page
TheAnchors ==
  IF ThePage.tag_section # None /\ ThePage.tag_section[1].inner # None
    THEN ThePage.tag_section[1].inner[1]
    ELSE <<>>
\* a.l anchors other than the 'more' anchor
Qualifying == {i \in DOMAIN TheAnchors : TheAnchors[i].class_l /\ TheAnchors[i].id # MoreId}
WithSpan == {i \in Qualifying : TheAnchors[i].span # None}
Label(i) == Strip(TheAnchors[i].span[1])
WithText == {i \in WithSpan : Label(i) # <<>>}
Occurrences(seq, x) == Cardinality({k \in DOMAIN seq : seq[k] = x})

Rank(p) ==
  CASE p = "start" -> 0 [] p = "parse" -> 1 [] p = "name" -> 2 [] p = "summary" -> 3
    [] p = "cover" -> 4 [] p = "tags" -> 5 [] p = "return" -> 6 [] p = "except" -> 7
    [] p = "done" -> 8

\* C1: every call returns either a mapping whose only key is 'error' or a
\* mapping whose keys are exactly name, summary, cover_url, tags; never a mix,
\* never nothing, and nothing is returned before the call ends.
C1_ResultShape ==
  /\ Returned =>
       /\ result # None
       /\ IsErrorResult(result[1]) \/ IsDataResult(result[1])
       /\ "error" \in DOMAIN result[1] => DOMAIN result[1] = {"error"}
       /\ IsErrorResult(result[1]) <=> exc # None
  /\ ~Returned => result = None

C1_Witness ==
  /\ ReturnedError
  /\ response # None /\ response[1].status_code = 404
  /\ response[1].text.infobox # None /\ response[1].text.cover # None

\* C2 as stated: with a name item in the infobox, the name is the trimmed
\* remainder of that item after its first ':', whatever the heading holds,
\* the empty remainder included.
C2_NameIsRemainder ==
  /\ NameExtracted /\ HasNameItem => name = Some(Remainder)
  /\ ReturnedData /\ HasNameItem => result[1].name = Some(Remainder)

\* C2 amended: with a name item in the infobox, the name is the trimmed
\* remainder of the first such item whenever that remainder is not empty,
\* whatever the heading holds; an empty remainder gives the heading's name
\* when the heading exists and '' when it does not.
C2_NameIsNonEmptyRemainder ==
  LET expected ==
        IF Remainder # <<>> THEN Some(Remainder)
        ELSE IF HasHeading THEN HeadingName
        ELSE Some(<<>>)
  IN  /\ NameExtracted /\ HasNameItem => name = expected
      /\ ReturnedData /\ HasNameItem => result[1].name = expected

C2_Witness ==
  /\ ReturnedData /\ HasNameItem /\ HasHeading
  /\ Remainder = <<"a", ":", "b">>
  /\ Len(TheLis) = 2 /\ ~IsNameItem(1)
  /\ result[1].name = Some(<<"a", ":", "b">>)

\* C3: with no name item in the infobox (or no infobox), the name is the
\* trimmed text of the heading's lang='zh' <small>, else of its lang='zh'
\* <a>, else of the whole heading; with no heading it is None.
C3_NameFromHeading ==
  LET expected ==
        IF ~HasHeading THEN None
        ELSE IF TheHeading.zh_small # None THEN Some(Strip(TheHeading.zh_small[1]))
        ELSE IF TheHeading.zh_a # None THEN Some(Strip(TheHeading.zh_a[1]))
        ELSE Some(Strip(TheHeading.text))
  IN  /\ NameExtracted /\ ~HasNameItem => name = expected
      /\ ReturnedData /\ ~HasNameItem => result[1].name = expected

C3_Witness ==
  /\ ReturnedData /\ ~HasNameItem /\ TheLis # <<>> /\ HasHeading
  /\ TheHeading.zh_small = None /\ TheHeading.zh_a # None
  /\ TheHeading.text # <<>>
  /\ result[1].name = Some(<<"k">>)

\* C4: a src beginning with '//' is returned as 'https:' + src, any other src
\* is returned unchanged, and a page with no img.cover gives a data-result
\* whose cover_url is None.
C4_CoverUrl ==
  Returned /\ Fetched =>
    LET cover_elem == ThePage.cover
        slashes == <<"/", "/">>
    IN  /\ cover_elem = None =>
             IsDataResult(result[1]) /\ result[1].cover_url = None
        /\ cover_elem # None /\ cover_elem[1].src # None =>
             LET src == cover_elem[1].src[1]
             IN  /\ IsDataResult(result[1])
                 /\ StartsWith(src, slashes) =>
                      /\ result[1].cover_url = Some(HttpsPrefix \o src)
                      /\ StartsWith(result[1].cover_url[1], HttpsPrefix \o slashes)
                 /\ ~StartsWith(src, slashes) => result[1].cover_url = Some(src)

C4_Witness ==
  /\ ReturnedData /\ ThePage.cover # None
  /\ ThePage.cover[1].src = Some(<<"/", "/", "x">>)
  /\ result[1].cover_url = Some(HttpsPrefix \o <<"/", "/", "x">>)

\* C5 as stated: tags has one entry per qualifying anchor with a non-empty
\* <span>, and no entry is the empty string.
C5_NoEmptyTags ==
  TagsExtracted =>
    /\ Len(TheTags) = Cardinality(WithText)
    /\ \A k \in DOMAIN TheTags : TheTags[k] # <<>>

\* C5 amended: tags has one entry per qualifying anchor that has a <span>,
\* empty or not; anchors with no <span> contribute nothing; an entry is the
\* empty string exactly for a <span> whose trimmed text is empty.
C5_OneTagPerSpan ==
  TagsExtracted =>
    /\ Len(TheTags) = Cardinality(WithSpan)
    /\ Occurrences(TheTags, <<>>) = Cardinality(WithSpan \ WithText)
    /\ WithSpan = {} => TheTags = <<>>

C5_Witness ==
  /\ ReturnedData /\ Len(TheAnchors) = 3
  /\ \A i \in 1..3 : TheAnchors[i].class_l /\ TheAnchors[i].id # MoreId
  /\ TheAnchors[1].span = None
  /\ TheAnchors[2].span = Some(<<>>)
  /\ TheAnchors[3].span = Some(<<"a">>)
  /\ result[1].tags = << <<>>, <<"a">> >>

\* C6: wherever the 'more' anchor stands, tags leaves out its label and
\* nothing else: each label occurs in tags as often as it is the label of an
\* a.l anchor that has a <span> and is not the 'more' anchor.
C6_OmitsMoreOnly ==
  TagsExtracted =>
    \A x \in {TheTags[k] : k \in DOMAIN TheTags}
             \cup {Strip(TheAnchors[i].span[1]) :
                     i \in {j \in DOMAIN TheAnchors : TheAnchors[j].span # None}} :
      Occurrences(TheTags, x) = Cardinality({i \in WithSpan : Label(i) = x})

C6_Witness ==
  /\ ReturnedData /\ Len(TheAnchors) = 3
  /\ \A i \in 1..3 : TheAnchors[i].class_l /\ TheAnchors[i].span # None
  /\ TheAnchors[1].id # MoreId /\ TheAnchors[3].id # MoreId
  /\ TheAnchors[2].id = MoreId /\ TheAnchors[2].span = Some(<<"a">>)
  /\ result[1].tags = << <<"b">>, <<"b">> >>

\* C7: a landmark or attribute that is missing leaves only its own field
\* absent: the call still returns a data-result, and the other fields are
\* what their own landmarks give.
C7_Independent ==
  Returned /\ Fetched =>
    /\ IsDataResult(result[1])
    /\ ThePage.cover = None \/ ThePage.cover[1].src = None =>
         result[1].cover_url = None
    /\ ThePage.summary = None => result[1].summary = None
    /\ ThePage.summary # None => result[1].summary = Some(Strip(ThePage.summary[1]))
    /\ Len(result[1].tags) = Cardinality(WithSpan)
    /\ ~HasNameItem /\ ~HasHeading => result[1].name = None
    /\ ~HasNameItem /\ HasHeading => result[1].name = HeadingName

\* C8 as stated: a connection error, a timeout and any status outside 2xx
\* give an error-result with the network prefix; any other exception gives
\* one with the processing prefix; an error-result holds no other key.
C8_Non2xxIsNetworkError ==
  Returned =>
    /\ response = None =>
         IsErrorResult(result[1]) /\ result[1].error[1] = NetworkPrefix
    /\ response # None /\ response[1].status_code \notin 200..299 =>
         IsErrorResult(result[1]) /\ result[1].error[1] = NetworkPrefix
    /\ exc = Some("KeyError") =>
         IsErrorResult(result[1]) /\ result[1].error[1] = ProcessingPrefix

\* C8 amended: a connection error, a timeout and a 4xx or 5xx status give an
\* error-result with the network prefix; any other exception (the missing
\* src attribute) gives one with the processing prefix; every error-result
\* has one of the two prefixes and holds no field extracted before it.
C8_ErrorKinds ==
  Returned =>
    /\ response = None =>
         IsErrorResult(result[1]) /\ result[1].error[1] = NetworkPrefix
    /\ response # None /\ response[1].status_code \in 400..599 =>
         IsErrorResult(result[1]) /\ result[1].error[1] = NetworkPrefix
    /\ Fetched /\ ThePage.cover # None /\ ThePage.cover[1].src = None =>
         /\ IsErrorResult(result[1])
         /\ result[1].error = <<ProcessingPrefix, "KeyError">>
    /\ "error" \in DOMAIN result[1] =>
         /\ DOMAIN result[1] = {"error"}
         /\ result[1].error[1] \in {NetworkPrefix, ProcessingPrefix}
         /\ result[1].error[1] = NetworkPrefix <=> ~Fetched

C8_Witness ==
  /\ ReturnedError /\ exc = Some("KeyError")
  /\ name # None /\ summary # None
  /\ result[1].error[1] = ProcessingPrefix

C10_DocumentOrder ==
  TagsExtracted =>
    LET kth(k) == CHOOSE i \in WithSpan : Cardinality({j \in WithSpan : j <= i}) = k
    IN  /\ DOMAIN TheTags = 1..Cardinality(WithSpan)
        /\ \A k \in DOMAIN TheTags : TheTags[k] = Label(kth(k))
        /\ ThePage.tag_section = None \/ ThePage.tag_section[1].inner = None =>
             TheTags = <<>>

C10_Witness ==
  /\ ReturnedData /\ Len(TheAnchors) = 3
  /\ result[1].tags = << <<"b">>, <<"a">>, <<"b">> >>

====
